---- MODULE Spec2Model ----
(***************************************************************************)
(* Model of the meal planning server (meal_planning_server.py): the        *)
(* Spoonacular API client, the plan formatter and the two entry points     *)
(* (the generate_meal_plan tool and the command line).                     *)
(*                                                                         *)
(* Python values are records [t, n, s]: t is the type tag ("missing" for a *)
(* key a dict does not hold, "none" for None / JSON null, "int", "str"),   *)
(* n the integer and s the string.  Text is modelled by real strings; the  *)
(* two non-ASCII markers of the source are written Plate and Check.        *)
(***************************************************************************)
EXTENDS Integers, Sequences, FiniteSets, TLC

VARIABLES
    env,                  \* os.environ["SPOONACULAR_API_KEY"] ("" when unset)
    booted,               \* the module-level code (lines 25-35) has run
    SPOONACULAR_API_KEY,  \* the module global of line 25
    today,                \* the UTC date datetime.utcnow() reads (day index)
    inv,                  \* the invocations, one record per slot
    fmt                   \* the formatter under direct call: arguments and results

vars == <<env, booted, SPOONACULAR_API_KEY, today, inv, fmt>>

----------------------------------------------------------------------------
(* Bounds *)

MaxDay == 2       \* the clock runs over the days 0..MaxDay
MaxMeals == 3     \* longest meal list of a raw plan
NInv == 2         \* overlapping tool invocations

----------------------------------------------------------------------------
(* Python values *)

Missing == [t |-> "missing", n |-> 0, s |-> ""]
PyNone == [t |-> "none", n |-> 0, s |-> ""]
PyInt(k) == [t |-> "int", n |-> k, s |-> ""]
PyStr(x) == [t |-> "str", n |-> 0, s |-> x]

\* bool(v) as `if v:` evaluates it
Truthy(v) ==
    \/ v.t = "int" /\ v.n # 0
    \/ v.t = "str" /\ v.s # ""

\* str(v), also what an f-string interpolates
Str(v) ==
    CASE v.t = "int" -> ToString(v.n)
      [] v.t = "str" -> v.s
      [] OTHER -> "None"

\* dict.get(key, default) on the value stored under key
Get(v, default) == IF v.t = "missing" THEN default ELSE v

\* dict.get(key)
GetOpt(v) == Get(v, PyNone)

----------------------------------------------------------------------------
(* Dates: day index d stands for November (d+1), 2026 *)

Weekday(d) ==
    CASE d % 7 = 0 -> "Sunday"
      [] d % 7 = 1 -> "Monday"
      [] d % 7 = 2 -> "Tuesday"
      [] d % 7 = 3 -> "Wednesday"
      [] d % 7 = 4 -> "Thursday"
      [] d % 7 = 5 -> "Friday"
      [] OTHER -> "Saturday"

\* strftime("%A, %B %d %Y")
Strftime(d) ==
    Weekday(d) \o ", November " \o (IF d + 1 < 10 THEN "0" ELSE "")
        \o ToString(d + 1) \o " 2026"

\* event_date.replace("Z", "+00:00")
ReplaceZ(s) ==
    IF s = "2026-11-03T18:00:00Z" THEN "2026-11-03T18:00:00+00:00" ELSE s

\* datetime.fromisoformat: the day parsed, or a ValueError
FromIsoFormat(s) ==
    CASE s = "2026-11-03T18:00:00+00:00" -> [ok |-> TRUE, day |-> 2]
      [] s = "2026-11-02" -> [ok |-> TRUE, day |-> 1]
      [] OTHER -> [ok |-> FALSE, day |-> 0]

\* Mutant: the clock is read whether or not an event date is given.
ReadableDate_clock(event_date, now) == Strftime(now)

\* Mutant: no try/except around the parse; the marker stands for the raise.
ReadableDate_raise(event_date, now) ==
    IF Truthy(event_date)
    THEN IF FromIsoFormat(ReplaceZ(event_date.s)).ok
         THEN Strftime(FromIsoFormat(ReplaceZ(event_date.s)).day)
         ELSE "<raise ValueError>"
    ELSE Strftime(now)

\* readable_date of format_meal_plan; now is the date utcnow() returns
ReadableDate(event_date, now) ==
    IF Truthy(event_date)
    THEN IF FromIsoFormat(ReplaceZ(event_date.s)).ok
         THEN Strftime(FromIsoFormat(ReplaceZ(event_date.s)).day)
         ELSE event_date.s
    ELSE Strftime(now)

----------------------------------------------------------------------------
(* Fixed text *)

Plate == "(plate) "     \* the plate emoji and a space
Check == "[x] "         \* the ballot box mark and a space
Rule50 == "=================================================="
Rule30 == "------------------------------"
Sep == "\n" \o Rule50 \o "\n"

----------------------------------------------------------------------------
(* String order of day labels *)

\* the code points of the labels str(day) can give
CodePoints(s) ==
    CASE s = "1" -> <<49>>
      [] s = "2" -> <<50>>
      [] s = "10" -> <<49, 48>>
      [] s = "11" -> <<49, 49>>
      [] s = "None" -> <<78, 111, 110, 101>>
      [] s = "Unknown" -> <<85, 110, 107, 110, 111, 119, 110>>

RECURSIVE SeqLess(_, _)
SeqLess(a, b) ==
    IF b = <<>> THEN FALSE
    ELSE IF a = <<>> THEN TRUE
    ELSE IF a[1] # b[1] THEN a[1] < b[1]
    ELSE SeqLess(Tail(a), Tail(b))

\* a < b on Python str
StrLess(a, b) == SeqLess(CodePoints(a), CodePoints(b))

RECURSIVE Insert(_, _)
Insert(x, sorted) ==
    IF sorted = <<>> THEN <<x>>
    ELSE IF StrLess(x, sorted[1]) THEN <<x>> \o sorted
    ELSE <<sorted[1]>> \o Insert(x, Tail(sorted))

RECURSIVE InsertionSort(_)
InsertionSort(keys) ==
    IF keys = <<>> THEN <<>> ELSE Insert(keys[1], InsertionSort(Tail(keys)))

\* Mutant: the groups are visited in insertion order.
SortedKeys_unsorted(keys) == keys

\* sorted(grouped.keys())
SortedKeys(keys) == InsertionSort(keys)

----------------------------------------------------------------------------
(* format_meal_plan *)

\* str(meal.get("day", "Unknown"))
DayLabel(meal) == Str(Get(meal.day, PyStr("Unknown")))

\* grouped.keys(): the labels in order of first appearance
RECURSIVE GroupKeys(_, _)
GroupKeys(meals, seen) ==
    IF meals = <<>> THEN seen
    ELSE GroupKeys(Tail(meals),
                   IF \E i \in 1..Len(seen) : seen[i] = DayLabel(meals[1])
                   THEN seen ELSE Append(seen, DayLabel(meals[1])))

\* grouped[day]: the meals of the label, in list order
Grouped(meals, day) == SelectSeq(meals, LAMBDA m : DayLabel(m) = day)

MealLines(meal) ==
    <<Plate \o Str(Get(meal.title, PyStr("Untitled Meal")))>>
    \o (IF Truthy(GetOpt(meal.readyInMinutes))
        THEN <<"   Ready in: " \o Str(meal.readyInMinutes) \o " minutes">>
        ELSE <<>>)
    \o (IF Truthy(GetOpt(meal.servings))
        THEN <<"   Servings: " \o Str(meal.servings)>> ELSE <<>>)
    \o (IF Truthy(GetOpt(meal.id))
        THEN <<"   Recipe URL: https://spoonacular.com/recipes/-" \o Str(meal.id)>>
        ELSE <<>>)
    \o <<"">>

RECURSIVE ConcatMap(_, _)
ConcatMap(F(_), seq) ==
    IF seq = <<>> THEN <<>> ELSE F(seq[1]) \o ConcatMap(F, Tail(seq))

DayLines(meals, day) ==
    <<"DAY " \o day, Rule30>>
    \o ConcatMap(MealLines, Grouped(meals, day))
    \o <<"">>

MealsBlock(plan) ==
    IF plan.mealsIsList
    THEN LET keys == SortedKeys(GroupKeys(plan.meals, <<>>))
             Block(day) == DayLines(plan.meals, day)
         IN  ConcatMap(Block, keys)
    ELSE <<>>

\* Mutant: a preference line is written whenever the value is not None.
PrefLine_notNone(label, v) ==
    IF v.t # "none" THEN <<label \o Str(v)>> ELSE <<>>

\* `if preferences.get(k): lines.append(f"<label>{preferences[k]}")`
PrefLine(label, v) == IF Truthy(v) THEN <<label \o Str(v)>> ELSE <<>>

PreferenceLines(prefs) ==
    PrefLine("Family Size: ", prefs.familySize)
    \o PrefLine("Dietary Preference: ", prefs.diet)
    \o PrefLine("Exclusions: ", prefs.exclude)
    \o PrefLine("Daily Calorie Target: ", prefs.targetCalories)

\* bool(meal_plan.get("nutrients")): a dict is true when it holds a key
NutrientsTruthy(nut) ==
    /\ nut.isDict
    /\ \/ nut.extra
       \/ \E k \in {"calories", "protein", "fat", "carbohydrates"} :
              nut[k].t # "missing"

\* Mutant: an absent field is rendered as str(None).
NutrientField_none(nut, k) == Str(GetOpt(nut[k]))

\* nutrients.get(k, 'N/A') interpolated
NutrientField(nut, k) == Str(Get(nut[k], PyStr("N/A")))

NutrientLines(plan) ==
    IF NutrientsTruthy(plan.nutrients)
    THEN << Rule50, "NUTRITION SUMMARY", Rule30,
            "Calories: " \o NutrientField(plan.nutrients, "calories"),
            "Protein: " \o NutrientField(plan.nutrients, "protein") \o "g",
            "Fat: " \o NutrientField(plan.nutrients, "fat") \o "g",
            "Carbohydrates: "
                \o NutrientField(plan.nutrients, "carbohydrates") \o "g" >>
    ELSE <<>>

ItemLine(item) ==
    IF Truthy(GetOpt(item.aisle))
    THEN <<Check \o Str(Get(item.name, PyStr("Unnamed Item")))
              \o " (" \o Str(item.aisle) \o ")">>
    ELSE <<Check \o Str(Get(item.name, PyStr("Unnamed Item")))>>

ItemLines(plan) ==
    IF plan.items # <<>>
    THEN <<"\n" \o Rule50, "GROCERY LIST", Rule30>> \o ConcatMap(ItemLine, plan.items)
    ELSE <<>>

\* the list `lines` when format_meal_plan reaches its return
FormatLines(plan, prefs, now) ==
    << "WEEKLY MEAL PLAN",
       "Generated: " \o ReadableDate(prefs.eventDate, now) \o "\n" >>
    \o PreferenceLines(prefs)
    \o <<Sep>>
    \o MealsBlock(plan)
    \o NutrientLines(plan)
    \o ItemLines(plan)

RECURSIVE Join(_)
Join(lines) ==
    IF lines = <<>> THEN ""
    ELSE IF Len(lines) = 1 THEN lines[1]
    ELSE lines[1] \o "\n" \o Join(Tail(lines))

\* "\n".join(lines).strip(): the text starts with the title, so only its end
\* is trimmed; there the whitespace is empty lines and the separator's newline
RECURSIVE Strip(_)
Strip(lines) ==
    IF lines = <<>> THEN <<>>
    ELSE IF lines[Len(lines)] = "" THEN Strip(SubSeq(lines, 1, Len(lines) - 1))
    ELSE IF lines[Len(lines)] = Sep
         THEN Append(SubSeq(lines, 1, Len(lines) - 1), "\n" \o Rule50)
    ELSE lines

\* format_meal_plan's result: raised when the plan is no dict or the date
\* computation raised, else the text
format_meal_plan(body, prefs, now) ==
    IF body.kind # "object"
    THEN [raised |-> TRUE, error |-> "AttributeError", text |-> "", lines |-> <<>>]
    ELSE IF ReadableDate(prefs.eventDate, now) = "<raise ValueError>"
    THEN [raised |-> TRUE, error |-> "ValueError", text |-> "", lines |-> <<>>]
    ELSE [raised |-> FALSE, error |-> "",
          text |-> Join(Strip(FormatLines(body.plan, prefs, now))),
          lines |-> FormatLines(body.plan, prefs, now)]

----------------------------------------------------------------------------
(* Inputs *)

None == PyNone

TimeFrames == {"day", "week", "month"}
IntArgs == {None, PyInt(0), PyInt(2000)}
FamilyArgs == {None, PyInt(4)}
DietArgs == {None, PyStr(""), PyStr("vegetarian")}
ExcludeArgs == {None, PyStr(""), PyStr("nuts")}
DateArgs == {None, PyStr(""), PyStr("2026-11-03T18:00:00Z"), PyStr("not-a-date")}

\* the keyword arguments of _generate_meal_plan_internal
Args == [time_frame : TimeFrames, target_calories : IntArgs, diet : DietArgs,
         exclude : ExcludeArgs, family_size : FamilyArgs, event_date : DateArgs]

NoArgs == [time_frame |-> "", target_calories |-> None, diet |-> None,
           exclude |-> None, family_size |-> None, event_date |-> None]

\* the preferences dict of lines 144-150 (and 194-200, 259-265)
Preferences(args) ==
    [familySize |-> args.family_size, targetCalories |-> args.target_calories,
     diet |-> args.diet, exclude |-> args.exclude, eventDate |-> args.event_date]

\* meals of the upstream plan
Soup == [day |-> PyStr("2"), title |-> PyStr("Soup"), readyInMinutes |-> PyInt(30),
         servings |-> PyInt(2), id |-> PyInt(101)]
Salad == [day |-> PyInt(1), title |-> PyStr("Salad"), readyInMinutes |-> Missing,
          servings |-> PyInt(0), id |-> Missing]
Stew == [day |-> PyInt(10), title |-> Missing, readyInMinutes |-> PyInt(45),
         servings |-> PyNone, id |-> PyInt(7)]
Toast == [day |-> Missing, title |-> PyStr("Toast"), readyInMinutes |-> Missing,
          servings |-> Missing, id |-> Missing]
Eggs == [day |-> PyStr("1"), title |-> PyStr("Eggs"), readyInMinutes |-> PyInt(5),
         servings |-> PyInt(1), id |-> Missing]
MealPool == {Soup, Salad, Stew, Toast, Eggs}

MealLists == UNION { [1..n -> MealPool] : n \in 0..MaxMeals }

NutrientKeys == {"calories", "protein", "fat", "carbohydrates"}

\* "nutrients" absent from the plan (or null)
NoNutrients == [isDict |-> FALSE, extra |-> FALSE, calories |-> Missing,
                protein |-> Missing, fat |-> Missing, carbohydrates |-> Missing]

\* "nutrients" a dict: every subset of the four fields, and one dict holding
\* only a key the formatter does not read
NutrientDicts ==
    [isDict : {TRUE}, extra : {FALSE}, calories : {Missing, PyInt(2000)},
     protein : {Missing, PyInt(90)}, fat : {Missing, PyInt(70)},
     carbohydrates : {Missing, PyInt(250)}]
    \cup {[NoNutrients EXCEPT !.isDict = TRUE, !.extra = TRUE]}

Milk == [name |-> PyStr("Milk"), aisle |-> PyStr("Dairy")]
Bread == [name |-> PyStr("Bread"), aisle |-> Missing]
Anon == [name |-> Missing, aisle |-> PyStr("")]
ItemLists == {<<>>, <<Milk>>, <<Bread, Anon, Milk>>}

EmptyPlan == [mealsIsList |-> FALSE, meals |-> <<>>, nutrients |-> NoNutrients,
              items |-> <<>>]

\* the plans the formatter is applied to
FmtPlans ==
    {[EmptyPlan EXCEPT !.mealsIsList = TRUE, !.meals = ms] : ms \in MealLists}
    \cup [mealsIsList : BOOLEAN, meals : {<<>>, <<Soup, Eggs>>},
          nutrients : NutrientDicts \cup {NoNutrients}, items : ItemLists]

\* the plans the upstream answers with
ApiPlans == {EmptyPlan,
             [mealsIsList |-> TRUE, meals |-> <<Soup, Eggs, Salad>>,
              nutrients |-> [NoNutrients EXCEPT !.isDict = TRUE,
                                                !.calories = PyInt(2000)],
              items |-> <<Milk>>]}

\* a response body: not JSON, JSON that is no object, or a plan object
Bodies == {[kind |-> "nonjson", plan |-> EmptyPlan],
           [kind |-> "array", plan |-> EmptyPlan]}
          \cup {[kind |-> "object", plan |-> p] : p \in ApiPlans}

\* what requests.get(..., timeout=30) can end in: a response of some status
\* and body, or a timeout
Responses == [timeout : {FALSE}, status : {200}, body : Bodies]
             \cup [timeout : {FALSE}, status : {404, 500},
                   body : {b \in Bodies : b.plan = EmptyPlan}]
             \cup {[timeout |-> TRUE, status |-> 0,
                    body |-> [kind |-> "nonjson", plan |-> EmptyPlan]]}

NoResponse == [timeout |-> FALSE, status |-> 0,
               body |-> [kind |-> "nonjson", plan |-> EmptyPlan]]

----------------------------------------------------------------------------
(* The API client and plan generation *)

\* a query dict: Missing marks a key the dict does not hold
NoParams == [timeFrame |-> Missing, targetCalories |-> Missing, diet |-> Missing,
             exclude |-> Missing, familySize |-> Missing, eventDate |-> Missing,
             apiKey |-> Missing]

\* Mutant: an optional field is forwarded whenever it is not None.
BuildParams_notNone(args) ==
    [NoParams EXCEPT
        !.timeFrame = PyStr(args.time_frame),
        !.targetCalories = IF args.target_calories # None
                           THEN args.target_calories ELSE Missing,
        !.diet = IF args.diet # None THEN args.diet ELSE Missing,
        !.exclude = IF args.exclude # None THEN args.exclude ELSE Missing]

\* params of _generate_meal_plan_internal
BuildParams(args) ==
    [NoParams EXCEPT
        !.timeFrame = PyStr(args.time_frame),
        !.targetCalories = IF Truthy(args.target_calories)
                           THEN args.target_calories ELSE Missing,
        !.diet = IF Truthy(args.diet) THEN args.diet ELSE Missing,
        !.exclude = IF Truthy(args.exclude) THEN args.exclude ELSE Missing]

\* {**params, "apiKey": SPOONACULAR_API_KEY}
WithApiKey(params, key) == [params EXCEPT !.apiKey = PyStr(key)]

\* Mutant: the request is sent without looking at the credential.
KeyConfigured_always(key) == TRUE

\* `if not SPOONACULAR_API_KEY` negated
KeyConfigured(key) == key # ""

\* Mutant: the time frame is not checked.
ValidTimeFrame_any(time_frame) == TRUE

\* `time_frame in {"day", "week"}`, and argparse's choices=["day", "week"]
ValidTimeFrame(time_frame) == time_frame \in {"day", "week"}

\* response.raise_for_status() raises
RaiseForStatus(status) == 400 <= status /\ status < 600

NoEnvelope == [mealPlan |-> [kind |-> "nonjson", plan |-> EmptyPlan],
               formattedText |-> "", document |-> PyNone,
               preferences |-> Preferences(NoArgs)]

NoOutcome == [kind |-> "none", error |-> "", message |-> "",
              envelope |-> NoEnvelope, lines |-> <<>>]

Failure(error, message) ==
    [kind |-> "failure", error |-> error, message |-> message,
     envelope |-> NoEnvelope, lines |-> <<>>]

\* an exception leaving _generate_meal_plan_internal: the tool wraps it in
\* RuntimeError(str(error)), the command line lets it escape and prints nothing
Surface(entry, error, message) ==
    IF entry = "tool" THEN Failure("RuntimeError", message)
    ELSE Failure(error, message)

\* the envelope json.dumps serialises (returned by the tool, printed by the CLI)
Envelope(body, text, lines, args) ==
    [kind |-> "envelope", error |-> "", message |-> "",
     envelope |-> [mealPlan |-> body, formattedText |-> text,
                   document |-> PyNone, preferences |-> Preferences(args)],
     lines |-> lines]

Idle == [pc |-> "idle", entry |-> "", args |-> NoArgs, gets |-> 0,
         sent |-> NoParams, resp |-> NoResponse, day |-> 0, out |-> NoOutcome]

\* an invocation up to the point where requests.get blocks
Start(entry, args, key) ==
    IF ~ValidTimeFrame(args.time_frame)
    THEN [Idle EXCEPT !.pc = "done", !.entry = entry, !.args = args,
             !.out = IF entry = "tool"
                     THEN Failure("ValueError",
                                  "time_frame must be either 'day' or 'week'")
                     ELSE Failure("ArgumentError",
                                  "argument --time-frame: invalid choice")]
    ELSE IF ~KeyConfigured(key)
    THEN [Idle EXCEPT !.pc = "done", !.entry = entry, !.args = args,
             !.out = Surface(entry, "RuntimeError",
                        "SPOONACULAR_API_KEY environment variable is not set.")]
    ELSE [Idle EXCEPT !.pc = "waiting", !.entry = entry, !.args = args,
             !.gets = 1, !.sent = WithApiKey(BuildParams(args), key)]

\* the exception the response makes call_spoonacular raise ("" for none)
ResponseError(r) ==
    IF r.timeout THEN "Timeout"
    ELSE IF RaiseForStatus(r.status) THEN "HTTPError"
    ELSE IF r.body.kind = "nonjson" THEN "JSONDecodeError"
    ELSE ""

ErrorMessage(error, r) ==
    CASE error = "Timeout" -> "Read timed out. (read timeout=30)"
      [] error = "HTTPError" -> ToString(r.status) \o " Error for url"
      [] error = "JSONDecodeError" -> "Expecting value: line 1 column 1 (char 0)"
      [] error = "AttributeError" -> "'list' object has no attribute 'get'"
      [] OTHER -> "Invalid isoformat string"

\* Mutant: a failed request is sent once more.
Finish_retry(rec, r, now) ==
    IF ResponseError(r) # "" /\ rec.gets < 2
    THEN [rec EXCEPT !.gets = rec.gets + 1, !.resp = r]
    ELSE [rec EXCEPT !.pc = "done", !.resp = r, !.day = now,
             !.out = Surface(rec.entry, "HTTPError", "gave up")]

\* Mutant: the preferences live in one module-level dict all invocations write.
Finish_shared(rec, r, now) ==
    LET shared == Preferences(inv[1].args)
        f == format_meal_plan(r.body, shared, now)
    IN  IF ResponseError(r) # ""
        THEN [rec EXCEPT !.pc = "done", !.resp = r, !.day = now,
                 !.out = Surface(rec.entry, ResponseError(r),
                                 ErrorMessage(ResponseError(r), r))]
        ELSE IF f.raised
        THEN [rec EXCEPT !.pc = "done", !.resp = r, !.day = now,
                 !.out = Surface(rec.entry, f.error, ErrorMessage(f.error, r))]
        ELSE [rec EXCEPT !.pc = "done", !.resp = r, !.day = now,
                 !.out = Envelope(r.body, f.text, f.lines, rec.args)]

\* the invocation from the return of requests.get to its end
Finish(rec, r, now) ==
    LET f == format_meal_plan(r.body, Preferences(rec.args), now)
    IN  IF ResponseError(r) # ""
        THEN [rec EXCEPT !.pc = "done", !.resp = r, !.day = now,
                 !.out = Surface(rec.entry, ResponseError(r),
                                 ErrorMessage(ResponseError(r), r))]
        ELSE IF f.raised
        THEN [rec EXCEPT !.pc = "done", !.resp = r, !.day = now,
                 !.out = Surface(rec.entry, f.error, ErrorMessage(f.error, r))]
        ELSE [rec EXCEPT !.pc = "done", !.resp = r, !.day = now,
                 !.out = Envelope(r.body, f.text, f.lines, rec.args)]

----------------------------------------------------------------------------
(* The process *)

Slots == 1..NInv

NoCalls == [plan |-> EmptyPlan, prefs |-> Preferences(NoArgs), calls |-> <<>>]

Init ==
    /\ env \in {"", "k3y"}
    /\ booted = FALSE
    /\ SPOONACULAR_API_KEY = ""
    /\ today = 0
    /\ inv = [i \in Slots |-> Idle]
    /\ fmt = NoCalls

\* module level: SPOONACULAR_API_KEY = os.getenv("SPOONACULAR_API_KEY", "")
Startup ==
    /\ ~booted
    /\ booted' = TRUE
    /\ SPOONACULAR_API_KEY' = env
    /\ UNCHANGED <<env, today, inv, fmt>>

\* midnight UTC passes
Tick ==
    /\ today < MaxDay
    /\ today' = today + 1
    /\ UNCHANGED <<env, booted, SPOONACULAR_API_KEY, inv, fmt>>

Begin(i, entry, args) ==
    /\ booted
    /\ inv[i].pc = "idle"
    /\ inv' = [inv EXCEPT ![i] = Start(entry, args, SPOONACULAR_API_KEY)]
    /\ UNCHANGED <<env, booted, SPOONACULAR_API_KEY, today, fmt>>

\* the host calls the generate_meal_plan tool
ToolCall(i) == \E args \in Args : Begin(i, "tool", args)

\* the script is run from the command line
CliRun(i) == \E args \in Args : Begin(i, "cli", args)

ReceiveFrom(i, rs) ==
    /\ inv[i].pc = "waiting"
    /\ \E r \in rs : inv' = [inv EXCEPT ![i] = Finish(inv[i], r, today)]
    /\ UNCHANGED <<env, booted, SPOONACULAR_API_KEY, today, fmt>>

\* requests.get returns or raises
Receive(i) == ReceiveFrom(i, Responses)

\* the result (the JSON string, or the exception) has been handed to the
\* caller and the invocation's frame is gone
Return(i) ==
    /\ inv[i].pc = "done"
    /\ inv' = [inv EXCEPT ![i] = Idle]
    /\ UNCHANGED <<env, booted, SPOONACULAR_API_KEY, today, fmt>>

\* one invocation at a time, over all arguments and responses
Next == Startup \/ Tick \/ ToolCall(1) \/ CliRun(1) \/ Receive(1) \/ Return(1)

Spec == Init /\ [][Next]_vars

----------------------------------------------------------------------------
(* Overlapping tool invocations *)

ConcArgs == [time_frame : {"week"}, target_calories : {None}, diet : {None},
             exclude : {None}, family_size : {None},
             event_date : {None, PyStr("not-a-date")}]

ConcResponses == {r \in Responses :
                    /\ ~r.timeout
                    /\ r.status \in {200, 404}
                    /\ r.body.kind = "object"}

ConcCall(i) == \E args \in ConcArgs : Begin(i, "tool", args)

ConcReceive(i) == ReceiveFrom(i, ConcResponses)

NextConc == Startup \/ Tick \/ (\E i \in Slots : ConcCall(i))
                \/ (\E i \in Slots : ConcReceive(i))
                \/ (\E i \in Slots : Return(i))

SpecConc == Init /\ [][NextConc]_vars

----------------------------------------------------------------------------
(* The formatter called directly, twice with the same arguments *)

BasePrefs == {Preferences(NoArgs),
              Preferences([NoArgs EXCEPT !.diet = PyStr("vegetarian"),
                                         !.event_date = PyStr("2026-11-02")])}

RichPrefs == [familySize : FamilyArgs \cup {PyInt(0)}, targetCalories : IntArgs,
              diet : DietArgs, exclude : ExcludeArgs,
              eventDate : DateArgs \cup {PyStr("2026-11-02")}]

BasePlans == ApiPlans

FmtInputs == (FmtPlans \X BasePrefs) \cup (BasePlans \X RichPrefs)

Call(plan, prefs, now) ==
    [now |-> now, res |-> format_meal_plan([kind |-> "object", plan |-> plan],
                                           prefs, now)]

\* the arguments are drawn before the first call
InitFmt ==
    /\ env = "k3y"
    /\ booted = FALSE
    /\ SPOONACULAR_API_KEY = ""
    /\ today = 0
    /\ inv = [i \in Slots |-> Idle]
    /\ \E in \in FmtInputs : fmt = [plan |-> in[1], prefs |-> in[2], calls |-> <<>>]

\* format_meal_plan(plan, prefs), called at most twice
FmtCall ==
    /\ Len(fmt.calls) < 2
    /\ fmt' = [fmt EXCEPT !.calls = Append(@, Call(fmt.plan, fmt.prefs, today))]
    /\ UNCHANGED <<env, booted, SPOONACULAR_API_KEY, today, inv>>

NextFmt == Tick \/ FmtCall

SpecFmt == InitFmt /\ [][NextFmt]_vars

----------------------------------------------------------------------------
(* Properties of the formatter, under SpecFmt *)

\* the lines of the k-th direct call
Out(k) == fmt.calls[k].res.lines

Called == Len(fmt.calls) >= 1

AllLabels == {DayLabel(m) : m \in MealPool}

IsHeader(l) == \E x \in AllLabels : l = "DAY " \o x

IsTitle(l) == \E m \in MealPool : l = Plate \o Str(Get(m.title, PyStr("Untitled Meal")))

\* the labels of the meal list, in list order
InputLabels == [i \in 1..Len(fmt.plan.meals) |-> DayLabel(fmt.plan.meals[i])]

\* the title lines the meals of label x must give, in list order
ExpectedTitles(x) ==
    LET ms == SelectSeq(fmt.plan.meals, LAMBDA m : DayLabel(m) = x)
    IN  [i \in 1..Len(ms) |-> Plate \o Str(Get(ms[i].title, PyStr("Untitled Meal")))]

\* the title lines from header line i up to the next header
TitlesAfter(lines, i) ==
    LET later == {j \in (i + 1)..Len(lines) : IsHeader(lines[j])}
        stop == IF later = {} THEN Len(lines) + 1
                ELSE CHOOSE j \in later : \A k \in later : j <= k
    IN  SelectSeq(SubSeq(lines, i + 1, stop - 1), IsTitle)

\* C5: format_meal_plan emits exactly one "DAY <label>" group per distinct day
\* label of the meal list, the groups are in ascending (string) order of their
\* labels, and the meals of a group keep their relative order of the list.
C5_GroupingOrder ==
    (Called /\ fmt.plan.mealsIsList) =>
        LET lines == Out(1)
            heads == {i \in 1..Len(lines) : IsHeader(lines[i])}
        IN  /\ \A n \in 1..Len(InputLabels) :
                   Cardinality({i \in heads :
                                  lines[i] = "DAY " \o InputLabels[n]}) = 1
            /\ \A i \in heads : \E n \in 1..Len(InputLabels) :
                   lines[i] = "DAY " \o InputLabels[n]
            /\ \A i, j \in heads : \A x, y \in AllLabels :
                   (i < j /\ lines[i] = "DAY " \o x /\ lines[j] = "DAY " \o y)
                       => StrLess(x, y)
            /\ \A i \in heads : \A x \in AllLabels :
                   lines[i] = "DAY " \o x => TitlesAfter(lines, i) = ExpectedTitles(x)

\* days ["2", "1", "1"] have been formatted as DAY 1 (Eggs, Salad) then DAY 2
C5_Witness ==
    /\ Called
    /\ fmt.plan.mealsIsList
    /\ fmt.plan.meals = <<Soup, Eggs, Salad>>
    /\ InputLabels = <<"2", "1", "1">>
    /\ SelectSeq(Out(1), IsHeader) = <<"DAY 1", "DAY 2">>
    /\ SelectSeq(Out(1), IsTitle) = <<Plate \o "Eggs", Plate \o "Salad", Plate \o "Soup">>

\* C6 as stated: two calls of format_meal_plan with the same arguments return
\* identical text, whenever the two calls are made.
C6_Original ==
    Len(fmt.calls) = 2 => fmt.calls[1].res.text = fmt.calls[2].res.text

\* C6 amended: two calls with the same arguments return identical text when
\* the preferences carry a non-empty event date, or when both calls are made
\* on the same UTC date.
C6_Deterministic ==
    (/\ Len(fmt.calls) = 2
     /\ \/ Truthy(fmt.prefs.eventDate)
        \/ fmt.calls[1].now = fmt.calls[2].now)
        => fmt.calls[1].res.text = fmt.calls[2].res.text

\* two calls on different dates with an event date given
C6_Witness ==
    /\ Len(fmt.calls) = 2
    /\ Truthy(fmt.prefs.eventDate)
    /\ fmt.calls[1].now # fmt.calls[2].now
    /\ fmt.calls[1].res.text = fmt.calls[2].res.text

PrefValues == FamilyArgs \cup IntArgs \cup DietArgs \cup ExcludeArgs \cup {PyInt(0)}

\* some line starts with the label (followed by any value, str(None) included)
HasLine(lines, label) ==
    \E i \in 1..Len(lines) : \E v \in PrefValues : lines[i] = label \o Str(v)

PrefLabels ==
    {<<"Family Size: ", fmt.prefs.familySize>>,
     <<"Dietary Preference: ", fmt.prefs.diet>>,
     <<"Exclusions: ", fmt.prefs.exclude>>,
     <<"Daily Calorie Target: ", fmt.prefs.targetCalories>>}

\* C7 as stated: each of the four preference lines is emitted if and only if
\* the preference is present (not None).
C7_Original ==
    Called => \A p \in PrefLabels : HasLine(Out(1), p[1]) <=> p[2] # None

\* C7 amended: each of the four preference lines is emitted if and only if the
\* preference is present and neither 0 nor the empty string; the line then
\* carries the value, and an absent preference never produces a line.
C7_PreferenceLines ==
    Called => \A p \in PrefLabels :
        /\ HasLine(Out(1), p[1]) <=> Truthy(p[2])
        /\ Truthy(p[2]) => \E i \in 1..Len(Out(1)) : Out(1)[i] = p[1] \o Str(p[2])

\* a formatted text with the family size line and without the diet line
C7_Witness ==
    /\ Called
    /\ fmt.prefs.familySize = PyInt(4) /\ fmt.prefs.diet = None
    /\ fmt.prefs.targetCalories = PyInt(0)
    /\ HasLine(Out(1), "Family Size: ")
    /\ ~HasLine(Out(1), "Dietary Preference: ")

\* how a field of the summary must be shown
Shown(v) == IF v.t = "missing" THEN "N/A" ELSE Str(v)

HasNutritionBlock(lines, nut) ==
    \E i \in 1..Len(lines) :
        /\ lines[i] = "NUTRITION SUMMARY"
        /\ i + 5 <= Len(lines)
        /\ lines[i + 1] = Rule30
        /\ lines[i + 2] = "Calories: " \o Shown(nut.calories)
        /\ lines[i + 3] = "Protein: " \o Shown(nut.protein) \o "g"
        /\ lines[i + 4] = "Fat: " \o Shown(nut.fat) \o "g"
        /\ lines[i + 5] = "Carbohydrates: " \o Shown(nut.carbohydrates) \o "g"

NoNutritionBlock(lines) == \A i \in 1..Len(lines) : lines[i] # "NUTRITION SUMMARY"

\* C8 as stated: whenever the plan carries a nutrient summary, whatever subset
\* of its four fields is filled, the block is emitted with N/A for each absent
\* field; without a summary the block is absent.
C8_Original ==
    Called =>
        IF fmt.plan.nutrients.isDict
        THEN HasNutritionBlock(Out(1), fmt.plan.nutrients)
        ELSE NoNutritionBlock(Out(1))

\* the summary holds at least one key
NonEmptySummary(nut) ==
    nut.isDict /\ (nut.extra \/ \E k \in NutrientKeys : nut[k].t # "missing")

\* C8 amended: whenever the plan carries a nutrient summary holding at least
\* one key, the NUTRITION SUMMARY block is emitted with the lines Calories,
\* Protein, Fat, Carbohydrates in that order, each absent field shown as N/A;
\* when the plan carries no summary or an empty one, the block is absent.
C8_NutritionBlock ==
    Called =>
        IF NonEmptySummary(fmt.plan.nutrients)
        THEN HasNutritionBlock(Out(1), fmt.plan.nutrients)
        ELSE NoNutritionBlock(Out(1))

\* a summary without protein has been rendered with "Protein: N/Ag"
C8_Witness ==
    /\ Called
    /\ fmt.plan.nutrients.isDict
    /\ fmt.plan.nutrients.protein = Missing
    /\ fmt.plan.nutrients.calories = PyInt(2000)
    /\ \E i \in 1..Len(Out(1)) : Out(1)[i] = "Protein: N/Ag"

----------------------------------------------------------------------------
(* Properties of the invocations, under Spec *)

Started(i) == inv[i].pc # "idle"

Done(i) == inv[i].pc = "done"

\* C1: on both entry points an invocation whose time frame is outside
\* {"day", "week"} ends in an invalid-argument failure (the tool's ValueError,
\* the command line's argument error) and never issues an HTTP request.
C1_InvalidTimeFrame ==
    \A i \in Slots :
        (Started(i) /\ inv[i].args.time_frame \notin {"day", "week"}) =>
            /\ Done(i)
            /\ inv[i].out.kind = "failure"
            /\ inv[i].out.error =
                   (IF inv[i].entry = "tool" THEN "ValueError" ELSE "ArgumentError")
            /\ inv[i].gets = 0
            /\ inv[i].sent = NoParams

\* both entry points have rejected the time frame "month" with the key set
C1_Witness ==
    /\ SPOONACULAR_API_KEY # ""
    /\ Done(1)
    /\ inv[1].entry = "cli"
    /\ inv[1].args.time_frame = "month"
    /\ inv[1].out.kind = "failure"

\* C2: with no credential in the environment start-up still succeeds, and
\* every later call of call_spoonacular fails with the configuration error
\* (RuntimeError, "... is not set.") without issuing an HTTP request.
C2_MissingCredential ==
    /\ ~booted => ENABLED Startup
    /\ (booted /\ env = "") =>
           \A i \in Slots :
               /\ inv[i].gets = 0
               /\ inv[i].pc # "waiting"
               /\ (Done(i) /\ inv[i].args.time_frame \in {"day", "week"}) =>
                      /\ inv[i].out.kind = "failure"
                      /\ inv[i].out.error = "RuntimeError"
                      /\ inv[i].out.message =
                             "SPOONACULAR_API_KEY environment variable is not set."

\* started without a credential, a valid invocation has failed
C2_Witness ==
    /\ booted /\ env = ""
    /\ Done(1)
    /\ inv[1].args.time_frame = "week"
    /\ inv[1].out.kind = "failure"
    /\ inv[1].gets = 0

OptionalKeys ==
    {<<"targetCalories", "target_calories">>, <<"diet", "diet">>,
     <<"exclude", "exclude">>}

\* C3 as stated: the query sent is exactly timeFrame and apiKey plus those of
\* targetCalories, diet and exclude that the caller supplied (not None);
\* family size and event date are never sent.
C3_Original ==
    \A i \in Slots :
        inv[i].gets >= 1 =>
            /\ inv[i].sent.timeFrame = PyStr(inv[i].args.time_frame)
            /\ inv[i].sent.apiKey = PyStr(SPOONACULAR_API_KEY)
            /\ \A k \in OptionalKeys :
                   inv[i].sent[k[1]] =
                       (IF inv[i].args[k[2]] # None THEN inv[i].args[k[2]]
                        ELSE Missing)
            /\ inv[i].sent.familySize = Missing
            /\ inv[i].sent.eventDate = Missing

\* C3 amended: the query sent is exactly timeFrame and apiKey plus those of
\* targetCalories, diet and exclude that the caller supplied with a value
\* other than 0 and the empty string; an unset optional field is never
\* forwarded, and family size and event date are never forwarded.
C3_QueryParams ==
    \A i \in Slots :
        inv[i].gets >= 1 =>
            /\ inv[i].sent.timeFrame = PyStr(inv[i].args.time_frame)
            /\ inv[i].sent.apiKey = PyStr(SPOONACULAR_API_KEY)
            /\ \A k \in OptionalKeys :
                   inv[i].sent[k[1]] =
                       (IF Truthy(inv[i].args[k[2]]) THEN inv[i].args[k[2]]
                        ELSE Missing)
            /\ inv[i].sent.familySize = Missing
            /\ inv[i].sent.eventDate = Missing

\* a request with calories and diet, without exclude, with family size and
\* event date given
C3_Witness ==
    /\ inv[1].gets = 1
    /\ inv[1].args.time_frame = "day"
    /\ inv[1].args.family_size = PyInt(4)
    /\ inv[1].args.event_date # None
    /\ inv[1].args.exclude = None
    /\ inv[1].sent.targetCalories = PyInt(2000)
    /\ inv[1].sent.diet = PyStr("vegetarian")
    /\ inv[1].sent.exclude = Missing

\* the response is a timeout, a failure status or a body that is not JSON
BadResponse(r) ==
    r.timeout \/ r.status \in 400..599 \/ r.body.kind = "nonjson"

GoodPlan(i) ==
    /\ Done(i)
    /\ inv[i].gets = 1
    /\ ~BadResponse(inv[i].resp)
    /\ inv[i].resp.body.kind = "object"

\* the string is no ISO-8601 date
FailsIso(x) == x \notin {"2026-11-03T18:00:00Z", "2026-11-03T18:00:00+00:00",
                         "2026-11-02"}

\* C9 as stated: for every supplied event date string that fails ISO-8601
\* parsing the invocation returns its envelope and the "Generated:" line
\* carries the string unchanged.
C9_Original ==
    \A i \in Slots :
        (/\ GoodPlan(i)
         /\ inv[i].args.event_date.t = "str"
         /\ FailsIso(inv[i].args.event_date.s)) =>
            /\ inv[i].out.kind = "envelope"
            /\ inv[i].out.lines[2] =
                   "Generated: " \o inv[i].args.event_date.s \o "\n"

\* C9 amended: for every supplied non-empty event date string that fails
\* ISO-8601 parsing the invocation returns its envelope and the "Generated:"
\* line carries the string unchanged.
C9_DateFallback ==
    \A i \in Slots :
        (/\ GoodPlan(i)
         /\ inv[i].args.event_date.t = "str"
         /\ inv[i].args.event_date.s # ""
         /\ FailsIso(inv[i].args.event_date.s)) =>
            /\ inv[i].out.kind = "envelope"
            /\ inv[i].out.lines[2] =
                   "Generated: " \o inv[i].args.event_date.s \o "\n"

\* an envelope whose text echoes the event date "not-a-date"
C9_Witness ==
    /\ GoodPlan(1)
    /\ inv[1].args.event_date = PyStr("not-a-date")
    /\ inv[1].out.kind = "envelope"
    /\ inv[1].out.lines[2] = "Generated: not-a-date\n"

----------------------------------------------------------------------------
(* Properties of overlapping invocations, under SpecConc *)

\* C10 as stated: the outcome of an invocation is determined by its own
\* arguments, its own upstream response and the credential read at start-up,
\* and the credential is never modified after start-up.
C10_Original ==
    /\ booted => SPOONACULAR_API_KEY = env
    /\ \A i, j \in Slots :
           (/\ Done(i) /\ Done(j)
            /\ inv[i].args = inv[j].args
            /\ inv[i].resp = inv[j].resp) => inv[i].out = inv[j].out

\* C10 amended: the outcome of an invocation is determined by its own
\* arguments, its own upstream response, the credential read at start-up and,
\* when no non-empty event date is given, the UTC date on which its text is
\* formatted; no invocation's outcome depends on another invocation, and the
\* credential is never modified after start-up.
C10_Independent ==
    /\ booted => SPOONACULAR_API_KEY = env
    /\ \A i, j \in Slots :
           (/\ Done(i) /\ Done(j)
            /\ inv[i].args = inv[j].args
            /\ inv[i].resp = inv[j].resp
            /\ Truthy(inv[i].args.event_date) \/ inv[i].day = inv[j].day)
               => inv[i].out = inv[j].out

\* two overlapping invocations with the same arguments and response have
\* ended on different dates with the same envelope
C10_Witness ==
    /\ Done(1) /\ Done(2)
    /\ inv[1].args = inv[2].args
    /\ inv[1].resp = inv[2].resp
    /\ inv[1].day # inv[2].day
    /\ inv[1].out.kind = "envelope"
    /\ inv[1].out = inv[2].out

====
